---- MODULE Spec2Model ----
(***************************************************************************)
(* Model of the path transformer of google-drive-downloader               *)
(* (package transform: NewPathTransformer and PathTransformer.Transform). *)
(*                                                                         *)
(* A Go string is a sequence of one-character strings.  The regexp        *)
(* library the package calls is modelled by a parser (regexp.Compile), a  *)
(* leftmost-first backtracking matcher (FindStringSubmatch) and           *)
(* SubexpNames, for the fragment  literal  .  *  |  ( )  (?P<name> ).     *)
(* A `[` never finds its `]` in the pattern texts used here, so it is     *)
(* always the "missing closing ]" syntax error.                           *)
(***************************************************************************)
EXTENDS Integers, Sequences, FiniteSets, TLC

(***************************************************************************)
(* Bounds.                                                                 *)
(***************************************************************************)
MaxFormatPieces == 2
MaxPathPieces == 2

(***************************************************************************)
(* Strings.                                                                *)
(***************************************************************************)
RECURSIVE Concat(_)
Concat(ss) == IF ss = <<>> THEN <<>> ELSE Head(ss) \o Concat(Tail(ss))

HasPrefix(s, prefix) ==
    /\ Len(prefix) <= Len(s)
    /\ \A k \in 1..Len(prefix) : s[k] = prefix[k]

\* strings.Contains(s, substr)
Contains(s, substr) ==
    \E k \in 0..(Len(s) - Len(substr)) :
        \A j \in 1..Len(substr) : s[k + j] = substr[j]

\* strings.Replace(s, old, new, -1) for a non-empty old: every
\* non-overlapping occurrence, scanning from the left.
RECURSIVE Replace(_, _, _)
Replace(s, old, new) ==
    IF Len(s) < Len(old) THEN s
    ELSE IF HasPrefix(s, old)
         THEN new \o Replace(SubSeq(s, Len(old) + 1, Len(s)), old, new)
         ELSE <<Head(s)>> \o Replace(Tail(s), old, new)

\* "${" + name + "}"
Placeholder(name) == <<"$", "{">> \o name \o <<"}">>

(***************************************************************************)
(* regexp.Compile: a recursive-descent parser of the pattern text.        *)
(* A parse yields the syntax tree, the unread text and the names of the   *)
(* groups opened, in the order of their opening parentheses.              *)
(***************************************************************************)
NameChars == {"a", "b", "u"}
MetaChars == {"(", ")", "|", "*", "[", "?", "."}

EmptyNode == [op |-> "empty"]
ParseFail == [ok |-> FALSE, ast |-> EmptyNode, rest |-> <<>>, names |-> <<>>]

\* Position of the first ">" of toks from position k on, 0 when there is none.
RECURSIVE NameEnd(_, _)
NameEnd(toks, k) ==
    IF k > Len(toks) THEN 0
    ELSE IF toks[k] = ">" THEN k ELSE NameEnd(toks, k + 1)

RECURSIVE ParseAlt(_, _)
RECURSIVE ParseCat(_, _)

ParseOk(ast, rest, names) == [ok |-> TRUE, ast |-> ast, rest |-> rest, names |-> names]

\* The closing parenthesis of group idx, after its body was parsed.
CloseGroup(name, idx, inner) ==
    IF inner.ok /\ inner.rest # <<>> /\ Head(inner.rest) = ")"
    THEN ParseOk([op |-> "group", idx |-> idx, l |-> inner.ast],
                 Tail(inner.rest), <<name>> \o inner.names)
    ELSE ParseFail

\* The text after "(": a group, named when it starts with ?P<name>.  n groups
\* were opened before it, so it is group n + 1.
GroupOpen(r) ==
    IF HasPrefix(r, <<"?", "P", "<">>)
    THEN [named |-> TRUE,
          name |-> SubSeq(r, 4, NameEnd(r, 4) - 1),
          ok |-> NameEnd(r, 4) > 4
                 /\ \A k \in 4..(NameEnd(r, 4) - 1) : r[k] \in NameChars,
          body |-> SubSeq(r, NameEnd(r, 4) + 1, Len(r))]
    ELSE [named |-> FALSE, name |-> <<>>, ok |-> TRUE, body |-> r]

ParseGroup(g, n) ==
    IF g.ok THEN CloseGroup(g.name, n + 1, ParseAlt(g.body, n + 1)) ELSE ParseFail

ParseAtom(toks, n) ==
    IF toks = <<>> THEN ParseFail
    ELSE IF Head(toks) = "(" THEN ParseGroup(GroupOpen(Tail(toks)), n)
    ELSE IF Head(toks) = "." THEN ParseOk([op |-> "any"], Tail(toks), <<>>)
    ELSE IF Head(toks) \in MetaChars THEN ParseFail
    ELSE ParseOk([op |-> "lit", c |-> Head(toks)], Tail(toks), <<>>)

\* An atom and the * that may follow it.
Repeat(a) ==
    IF a.ok /\ a.rest # <<>> /\ Head(a.rest) = "*"
    THEN [a EXCEPT !.ast = [op |-> "star", l |-> a.ast], !.rest = Tail(a.rest)]
    ELSE a

ParseRep(toks, n) == Repeat(ParseAtom(toks, n))

JoinCat(a, r) ==
    IF ~r.ok THEN ParseFail
    ELSE ParseOk([op |-> "cat", l |-> a.ast, r |-> r.ast], r.rest, a.names \o r.names)

CatTail(a, n) ==
    IF ~a.ok THEN ParseFail ELSE JoinCat(a, ParseCat(a.rest, n + Len(a.names)))

ParseCat(toks, n) ==
    IF toks = <<>> \/ Head(toks) \in {"|", ")"}
    THEN ParseOk(EmptyNode, toks, <<>>)
    ELSE CatTail(ParseRep(toks, n), n)

JoinAlt(c, r) ==
    IF ~r.ok THEN ParseFail
    ELSE ParseOk([op |-> "alt", l |-> c.ast, r |-> r.ast], r.rest, c.names \o r.names)

AltTail(c, n) ==
    IF ~c.ok THEN ParseFail
    ELSE IF c.rest # <<>> /\ Head(c.rest) = "|"
    THEN JoinAlt(c, ParseAlt(Tail(c.rest), n + Len(c.names)))
    ELSE c

ParseAlt(toks, n) == AltTail(ParseCat(toks, n), n)

\* regexp.Compile(pattern): err is TRUE for a syntax error (unread text, a
\* missing parenthesis, a bad repetition or class, a duplicate group name).
\* names is SubexpNames(): names[1] is the whole match, names[i + 1] group i.
DuplicateName(names) ==
    \E i, j \in 1..Len(names) : i # j /\ names[i] # <<>> /\ names[i] = names[j]

Compiled(src, p) ==
    IF p.ok /\ p.rest = <<>> /\ ~DuplicateName(p.names)
    THEN [err |-> FALSE, src |-> src, prog |-> p.ast, names |-> <<<<>>>> \o p.names]
    ELSE [err |-> TRUE, src |-> src, prog |-> EmptyNode, names |-> <<>>]

Compile(src) == Compiled(src, ParseAlt(src, 0))

SubexpNames(re) == re.names

(***************************************************************************)
(* Matching: leftmost-first backtracking.  M yields, in order of           *)
(* preference, every way node can match s from position i: the position   *)
(* after the match and the groups' spans (NoSpan: took no part).          *)
(***************************************************************************)
NoSpan == <<-1, -1>>

RECURSIVE M(_, _, _, _)
RECURSIVE CatRest(_, _, _, _)
RECURSIVE StarRest(_, _, _, _, _)
RECURSIVE GroupRest(_, _, _, _)

CatRest(node, s, rs, k) ==
    IF k > Len(rs) THEN <<>>
    ELSE M(node, s, rs[k].pos, rs[k].caps) \o CatRest(node, s, rs, k + 1)

\* Greedy: one more iteration first (an iteration that consumes nothing
\* cannot repeat), then stopping here.
StarRest(node, s, i, rs, k) ==
    IF k > Len(rs) THEN <<>>
    ELSE (IF rs[k].pos > i THEN M(node, s, rs[k].pos, rs[k].caps) ELSE <<>>)
         \o StarRest(node, s, i, rs, k + 1)

GroupRest(idx, i, rs, k) ==
    IF k > Len(rs) THEN <<>>
    ELSE <<[pos |-> rs[k].pos,
            caps |-> [rs[k].caps EXCEPT ![idx] = <<i, rs[k].pos>>]]>>
         \o GroupRest(idx, i, rs, k + 1)

M(node, s, i, caps) ==
    CASE node.op = "empty" -> <<[pos |-> i, caps |-> caps]>>
      [] node.op = "lit" ->
            IF i <= Len(s) /\ s[i] = node.c
            THEN <<[pos |-> i + 1, caps |-> caps]>> ELSE <<>>
      [] node.op = "any" ->
            IF i <= Len(s) THEN <<[pos |-> i + 1, caps |-> caps]>> ELSE <<>>
      [] node.op = "cat" -> CatRest(node.r, s, M(node.l, s, i, caps), 1)
      [] node.op = "alt" -> M(node.l, s, i, caps) \o M(node.r, s, i, caps)
      [] node.op = "star" ->
            StarRest(node, s, i, M(node.l, s, i, caps), 1)
            \o <<[pos |-> i, caps |-> caps]>>
      [] node.op = "group" -> GroupRest(node.idx, i, M(node.l, s, i, caps), 1)

\* The leftmost start at which the pattern matches, with its preferred
\* match there; found is FALSE when it matches nowhere.
RECURSIVE FindFrom(_, _, _)
FindFrom(re, s, i) ==
    IF i > Len(s) + 1 THEN [found |-> FALSE, lo |-> 0, hi |-> 0, caps |-> <<>>]
    ELSE LET rs == M(re.prog, s, i, [k \in 1..(Len(re.names) - 1) |-> NoSpan])
         IN  IF rs # <<>>
             THEN [found |-> TRUE, lo |-> i, hi |-> rs[1].pos, caps |-> rs[1].caps]
             ELSE FindFrom(re, s, i + 1)

\* FindStringSubmatch trying the start of s only.
FindStringSubmatch_AtStart(re, s) ==
    IF M(re.prog, s, 1, [k \in 1..(Len(re.names) - 1) |-> NoSpan]) = <<>>
    THEN <<>>
    ELSE <<SubSeq(s, 1, M(re.prog, s, 1, [k \in 1..(Len(re.names) - 1) |-> NoSpan])[1].pos - 1)>>
         \o [k \in 1..(Len(re.names) - 1) |-> <<>>]

\* re.FindStringSubmatch(s): <<>> is nil (no match); otherwise the text of
\* the whole match followed by the text of each group, the empty string
\* for a group that took no part in the match.
FindStringSubmatch(re, s) ==
    LET f == FindFrom(re, s, 1)
    IN  IF ~f.found THEN <<>>
        ELSE <<SubSeq(s, f.lo, f.hi - 1)>> \o
             [k \in 1..(Len(re.names) - 1) |->
                 IF f.caps[k] = NoSpan THEN <<>>
                 ELSE SubSeq(s, f.caps[k][1], f.caps[k][2] - 1)]

(***************************************************************************)
(* The arguments the model draws from.                                     *)
(***************************************************************************)
NamedOpen(name) == <<"(", "?", "P", "<">> \o name \o <<">">>

PatEmpty == <<>>
\* (?P<a>[
PatBadClass == NamedOpen(<<"a">>) \o <<"[">>
\* x.*
PatNoGroup == <<"x", ".", "*">>
\* (x)/
PatUnnamed == <<"(", "x", ")", "/">>
\* (?P<a>.*)/
PatOne == NamedOpen(<<"a">>) \o <<".", "*", ")", "/">>
\* (?P<a>.*)(?P<b>/)
PatTwo == NamedOpen(<<"a">>) \o <<".", "*", ")">> \o NamedOpen(<<"b">>) \o <<"/", ")">>
\* (?P<a>x)|(?P<b>/)
PatAlt == NamedOpen(<<"a">>) \o <<"x", ")", "|">> \o NamedOpen(<<"b">>) \o <<"/", ")">>
\* (x*)(?P<b>/)
PatMixed == <<"(", "x", "*", ")">> \o NamedOpen(<<"b">>) \o <<"/", ")">>

Patterns == {PatEmpty, PatBadClass, PatNoGroup, PatUnnamed, PatOne, PatTwo,
             PatAlt, PatMixed}

FormatPieces == {Placeholder(<<"a">>), Placeholder(<<"b">>), Placeholder(<<"u">>),
                 <<"}">>, <<"$", "{">>}
PathPieces == {<<"x">>, <<"/">>, Placeholder(<<"b">>), <<"$", "{">>}

Pieced(pieces, max) ==
    {Concat(ps) : ps \in UNION {[1..n -> pieces] : n \in 0..max}}

Formats == Pieced(FormatPieces, MaxFormatPieces)
Paths == Pieced(PathPieces, MaxPathPieces)

\* The orders in which `range` may visit the keys of a map.
RangeOrders(keys) ==
    {o \in [1..Cardinality(keys) -> keys] :
        \A i, j \in 1..Cardinality(keys) : i # j => o[i] # o[j]}

(***************************************************************************)
(* NewPathTransformer.                                                     *)
(***************************************************************************)
Nil == <<>>
NoError == "nil"

\* The loop without its `name != ""` test.
hasNamedGroup_AnyName(re, fmt) ==
    \E i \in 1..Len(SubexpNames(re)) : Contains(fmt, Placeholder(SubexpNames(re)[i]))

\* The loop asking for every named group instead of one.
hasNamedGroup_AllNames(re, fmt) ==
    \A i \in 1..Len(SubexpNames(re)) :
        SubexpNames(re)[i] # <<>> => Contains(fmt, Placeholder(SubexpNames(re)[i]))

\* The loop over subexpNames that sets hasNamedGroup.
hasNamedGroup(re, fmt) ==
    \E i \in 1..Len(SubexpNames(re)) :
        /\ SubexpNames(re)[i] # <<>>
        /\ Contains(fmt, Placeholder(SubexpNames(re)[i]))

\* NewPathTransformer with the emptiness test moved after the compilation.
NewPathTransformerRet_CompileFirst(pat, fmt) ==
    LET re == Compile(pat)
    IN  IF re.err
        THEN [t |-> Nil, err |-> "InvalidPattern"]
        ELSE IF pat = <<>> \/ fmt = <<>>
        THEN [t |-> Nil, err |-> "InvalidArguments"]
        ELSE IF ~hasNamedGroup(re, fmt)
        THEN [t |-> Nil, err |-> "TemplateUnused"]
        ELSE [t |-> <<[pattern |-> re, format |-> fmt]>>, err |-> NoError]

\* What NewPathTransformer(pattern, format) returns: the transformer (Nil
\* or a one-element sequence holding the PathTransformer) and the error.
NewPathTransformerRet(pat, fmt) ==
    IF pat = <<>> \/ fmt = <<>>
    THEN [t |-> Nil, err |-> "InvalidArguments"]
    ELSE LET re == Compile(pat)
         IN  IF re.err
             THEN [t |-> Nil, err |-> "InvalidPattern"]
             ELSE IF ~hasNamedGroup(re, fmt)
             THEN [t |-> Nil, err |-> "TemplateUnused"]
             ELSE [t |-> <<[pattern |-> re, format |-> fmt]>>, err |-> NoError]

(***************************************************************************)
(* PathTransformer.Transform.                                              *)
(***************************************************************************)
\* The names that become keys of the captures map.
CaptureNames(re) ==
    {SubexpNames(re)[i] : i \in {j \in 2..Len(SubexpNames(re)) :
                                    SubexpNames(re)[j] # <<>>}}

\* The captures loop leaving out the groups whose match is the empty
\* string, so that their placeholder stays in the text.
Captures_SkipEmpty(re, match) ==
    [name \in CaptureNames(re) |->
        IF match[CHOOSE i \in 2..Len(SubexpNames(re)) : SubexpNames(re)[i] = name] = <<>>
        THEN Placeholder(name)
        ELSE match[CHOOSE i \in 2..Len(SubexpNames(re)) : SubexpNames(re)[i] = name]]

\* captures[name] = match[i] for every named group i.
Captures(re, match) ==
    [name \in CaptureNames(re) |->
        match[CHOOSE i \in 2..Len(SubexpNames(re)) : SubexpNames(re)[i] = name]]

\* The loop `for name, value := range captures`, visiting the keys in the
\* order o from its k-th key on.
RECURSIVE ReplaceLoop(_, _, _, _)
ReplaceLoop(result, captures, o, k) ==
    IF k > Len(o) THEN result
    ELSE ReplaceLoop(Replace(result, Placeholder(o[k]), captures[o[k]]),
                     captures, o, k + 1)

\* Text with a "${" that is followed, later on, by a "}".
PlaceholderShaped(s) ==
    \E i \in 1..(Len(s) - 1) :
        /\ s[i] = "$"
        /\ s[i + 1] = "{"
        /\ \E j \in (i + 2)..Len(s) : s[j] = "}"

\* The check asking for the "}" after the "${".
Unreplaced_Ordered(result) == PlaceholderShaped(result)

\* The check looking for the text "${}".
Unreplaced_EmptyName(result) == Contains(result, <<"$", "{", "}">>)

\* The check after the loop.
Unreplaced(result) == Contains(result, <<"$", "{">>) /\ Contains(result, <<"}">>)

\* Transform returning the partially substituted text next to the error.
TransformRet_PartialResult(tr, p, o) ==
    LET match == FindStringSubmatch(tr.pattern, p)
    IN  IF match = <<>>
        THEN [ret |-> <<>>, err |-> "NoMatch", msg |-> p]
        ELSE LET result == ReplaceLoop(tr.format, Captures(tr.pattern, match), o, 1)
             IN  IF Unreplaced(result)
                 THEN [ret |-> result, err |-> "UnresolvedPlaceholder", msg |-> result]
                 ELSE [ret |-> result, err |-> NoError, msg |-> <<>>]

\* What t.Transform(path) returns when range visits the captures in the
\* order o: the string, the error and the text the error message carries.
TransformRet(tr, p, o) ==
    LET match == FindStringSubmatch(tr.pattern, p)
    IN  IF match = <<>>
        THEN [ret |-> <<>>, err |-> "NoMatch", msg |-> p]
        ELSE LET result == ReplaceLoop(tr.format, Captures(tr.pattern, match), o, 1)
             IN  IF Unreplaced(result)
                 THEN [ret |-> <<>>, err |-> "UnresolvedPlaceholder", msg |-> result]
                 ELSE [ret |-> result, err |-> NoError, msg |-> <<>>]

(***************************************************************************)
(* State: the arguments and results of the constructor call and of the    *)
(* latest Transform call on the transformer it returned.                  *)
(***************************************************************************)
VARIABLES phase, pattern, format, t, newErr, path, order, ret, err, msg

\* The second call, Transform on the string the first call returned: the
\* order of its range loop and its results.
VARIABLES order2, ret2, err2

\* The program main: its position, the parsed flags, the drive it reads,
\* the files it holds and the files ListFiles returned, the index of its
\* loops, what Transform returned for each file, the locations the preview
\* printed and the locations DownloadFile wrote, the reason of os.Exit(1),
\* and whether this is the run after a dry run.
VARIABLES pc, flags, drive, files, listed, cursor, results, shown, saved, why, run

\* Concurrent calls of Transform on the one transformer: for each goroutine
\* the position of its call, its argument, the keys its range loop has
\* visited and what the call returned; and the local variables of the
\* calls (captures and result), one frame for each call.
VARIABLES calls, frames

callVars == <<phase, pattern, format, t, newErr, path, order, ret, err, msg>>
againVars == <<order2, ret2, err2>>
mainVars == <<pc, flags, drive, files, listed, cursor, results, shown, saved, why, run>>

concVars == <<calls, frames>>

vars == <<callVars, againVars, mainVars, concVars>>

Goroutines == {1, 2}

NoCall ==
    [pc |-> "idle", path |-> <<>>, visited |-> <<>>, ret |-> <<>>, err |-> NoError,
     concurrent |-> FALSE]

NoFrame == [captures |-> <<>>, result |-> <<>>]

\* The variables of the concurrent calls while there are none.
ConcIdle ==
    /\ calls = [self \in Goroutines |-> NoCall]
    /\ frames = [self \in Goroutines |-> NoFrame]

NoFlags ==
    [pattern |-> <<>>, folderID |-> 0, maxDepth |-> -1, maxResults |-> 0,
     dryRun |-> FALSE, pathPattern |-> <<>>, pathFormat |-> <<>>]

\* The variables of main while main is not running.
MainIdle ==
    /\ pc = "idle"
    /\ flags = NoFlags
    /\ drive = <<>>
    /\ files = <<>>
    /\ listed = <<>>
    /\ cursor = 1
    /\ results = <<>>
    /\ shown = <<>>
    /\ saved = <<>>
    /\ why = NoError
    /\ run = 1

Init ==
    /\ phase = "start"
    /\ pattern = <<>>
    /\ format = <<>>
    /\ t = Nil
    /\ newErr = NoError
    /\ path = <<>>
    /\ order = <<>>
    /\ ret = <<>>
    /\ err = NoError
    /\ msg = <<>>
    /\ order2 = <<>>
    /\ ret2 = <<>>
    /\ err2 = NoError
    /\ MainIdle
    /\ ConcIdle

NewPathTransformer(pat, fmt) ==
    /\ phase = "start"
    /\ LET r == NewPathTransformerRet(pat, fmt)
       IN  /\ t' = r.t
           /\ newErr' = r.err
    /\ pattern' = pat
    /\ format' = fmt
    /\ phase' = "constructed"
    /\ UNCHANGED <<path, order, ret, err, msg>>
    /\ UNCHANGED <<againVars, mainVars, concVars>>

\* A call of Transform on the transformer that was constructed.
Transform(p, o) ==
    /\ phase = "constructed"
    /\ t # Nil
    /\ LET r == TransformRet(t[1], p, o)
       IN  /\ ret' = r.ret
           /\ err' = r.err
           /\ msg' = r.msg
    /\ path' = p
    /\ order' = o
    /\ phase' = "transformed"
    /\ UNCHANGED <<pattern, format, t, newErr>>
    /\ UNCHANGED <<againVars, mainVars, concVars>>

Next ==
    \/ \E pat \in Patterns, fmt \in Formats : NewPathTransformer(pat, fmt)
    \/ \E p \in Paths :
           \E o \in RangeOrders(IF t = Nil THEN {} ELSE CaptureNames(t[1].pattern)) :
               Transform(p, o)

Spec == Init /\ [][Next]_vars

(***************************************************************************)
(* Transform applied again, to its own result.  The formats of this       *)
(* specification may also hold a lone "$" and the text {b}, which join    *)
(* into a placeholder when the text between them is replaced by nothing.  *)
(***************************************************************************)
FormatsAgain ==
    Pieced(FormatPieces \cup {<<"$">>, <<"{", "b", "}">>}, MaxFormatPieces + 1)

TransformAgain(o) ==
    /\ phase = "transformed"
    /\ err = NoError
    /\ LET r == TransformRet(t[1], ret, o)
       IN  /\ ret2' = r.ret
           /\ err2' = r.err
    /\ order2' = o
    /\ phase' = "again"
    /\ UNCHANGED <<pattern, format, t, newErr, path, order, ret, err, msg>>
    /\ UNCHANGED <<mainVars, concVars>>

NextAgain ==
    \/ \E pat \in Patterns, fmt \in FormatsAgain : NewPathTransformer(pat, fmt)
    \/ \E p \in Paths :
           \E o \in RangeOrders(IF t = Nil THEN {} ELSE CaptureNames(t[1].pattern)) :
               Transform(p, o)
    \/ \E o \in RangeOrders(IF t = Nil THEN {} ELSE CaptureNames(t[1].pattern)) :
           TransformAgain(o)

SpecAgain == Init /\ [][NextAgain]_vars

(***************************************************************************)
(* Goroutines calling Transform on one shared transformer.  A call reads  *)
(* t.pattern and t.format and works on its own match, captures and        *)
(* result; every statement of the call is one step, and the steps of the  *)
(* calls interleave.  The transformer is written by no step: a            *)
(* regexp.Regexp is safe for concurrent use by its methods.               *)
(***************************************************************************)
\* The frame that holds the local variables of the call of a goroutine.
Frame_Shared(self) == 1

Frame(self) == self

InCall(self) == calls[self].pc \in {"match", "replace"}

\* go t.Transform(p)
Go(self, p) ==
    /\ phase = "constructed"
    /\ t # Nil
    /\ calls[self].pc = "idle"
    /\ calls' = [other \in Goroutines |->
                    IF other = self
                    THEN [NoCall EXCEPT !.pc = "match", !.path = p,
                                        !.concurrent = \E g \in Goroutines : InCall(g)]
                    ELSE [calls[other] EXCEPT
                             !.concurrent = calls[other].concurrent \/ InCall(other)]]
    /\ UNCHANGED frames
    /\ UNCHANGED <<callVars, againVars, mainVars>>

\* match := t.pattern.FindStringSubmatch(path), the captures map, and
\* result := t.format
MatchStep(self) ==
    /\ calls[self].pc = "match"
    /\ IF FindStringSubmatch(t[1].pattern, calls[self].path) = <<>>
       THEN /\ calls' = [calls EXCEPT ![self].pc = "returned",
                                      ![self].ret = <<>>,
                                      ![self].err = "NoMatch"]
            /\ UNCHANGED frames
       ELSE /\ calls' = [calls EXCEPT ![self].pc = "replace"]
            /\ frames' = [frames EXCEPT ![Frame(self)] =
                             [captures |-> Captures(t[1].pattern,
                                               FindStringSubmatch(t[1].pattern,
                                                                  calls[self].path)),
                              result |-> t[1].format]]
    /\ UNCHANGED <<callVars, againVars, mainVars>>

\* One turn of the range loop: a key not yet visited.
ReplaceStep(self, name) ==
    /\ calls[self].pc = "replace"
    /\ name \in CaptureNames(t[1].pattern)
    /\ \A k \in DOMAIN calls[self].visited : calls[self].visited[k] # name
    /\ frames' = [frames EXCEPT ![Frame(self)].result =
                     Replace(frames[Frame(self)].result, Placeholder(name),
                             frames[Frame(self)].captures[name])]
    /\ calls' = [calls EXCEPT ![self].visited = Append(calls[self].visited, name)]
    /\ UNCHANGED <<callVars, againVars, mainVars>>

\* The check after the loop, and the return.
CheckStep(self) ==
    /\ calls[self].pc = "replace"
    /\ Len(calls[self].visited) = Cardinality(CaptureNames(t[1].pattern))
    /\ calls' = [calls EXCEPT
                    ![self].pc = "returned",
                    ![self].ret = IF Unreplaced(frames[Frame(self)].result)
                                  THEN <<>>
                                  ELSE frames[Frame(self)].result,
                    ![self].err = IF Unreplaced(frames[Frame(self)].result)
                                  THEN "UnresolvedPlaceholder"
                                  ELSE NoError]
    /\ UNCHANGED frames
    /\ UNCHANGED <<callVars, againVars, mainVars>>

ConcPatterns == {PatTwo, PatAlt}
ConcFormats == Pieced({Placeholder(<<"a">>), Placeholder(<<"b">>)}, MaxFormatPieces)
ConcPaths == Pieced({<<"/">>, Placeholder(<<"b">>)}, MaxPathPieces)

NextConc ==
    \/ \E pat \in ConcPatterns, fmt \in ConcFormats : NewPathTransformer(pat, fmt)
    \/ \E self \in Goroutines, p \in ConcPaths : Go(self, p)
    \/ \E self \in Goroutines : MatchStep(self)
    \/ \E self \in Goroutines :
           \E name \in (IF t = Nil THEN {} ELSE CaptureNames(t[1].pattern)) :
               ReplaceStep(self, name)
    \/ \E self \in Goroutines : CheckStep(self)

SpecConc == Init /\ [][NextConc]_vars

(***************************************************************************)
(* The Drive and DriveService.ListFiles.                                   *)
(*                                                                         *)
(* A drive is a sequence of items; item k has the ID k and the ID 0 is    *)
(* the root folder, which is also what an empty -folder-id resolves to.   *)
(* Modification times are numbers, distinct within a drive, so that       *)
(* "modifiedTime desc" and sort.Slice have one outcome.  The calls of the *)
(* Drive API succeed, except that ListFiles as a whole may fail.  The     *)
(* characters Z, D and z stand for the folder names "Zoom Recordings",    *)
(* "Drive" and "zoom-recordings" of cleanPath.                            *)
(***************************************************************************)
RootName == <<"r">>

\* filepath.Clean for paths without "." elements: one separator between
\* elements and none at the end.
RECURSIVE SingleSeparators(_)
SingleSeparators(p) ==
    IF Len(p) <= 1 THEN p
    ELSE IF p[1] = "/" /\ p[2] = "/" THEN SingleSeparators(Tail(p))
    ELSE <<p[1]>> \o SingleSeparators(Tail(p))

NoSeparatorAtEnd(p) ==
    IF Len(p) > 1 /\ p[Len(p)] = "/" THEN SubSeq(p, 1, Len(p) - 1) ELSE p

Clean(p) == NoSeparatorAtEnd(SingleSeparators(p))

\* filepath.Join(a, b)
Join(a, b) ==
    IF a = <<>> THEN Clean(b)
    ELSE IF b = <<>> THEN Clean(a)
    ELSE Clean(a \o <<"/">> \o b)

\* strings.Replace(s, old, new, 1)
RECURSIVE ReplaceFirst(_, _, _)
ReplaceFirst(s, old, new) ==
    IF Len(s) < Len(old) THEN s
    ELSE IF HasPrefix(s, old) THEN new \o SubSeq(s, Len(old) + 1, Len(s))
    ELSE <<Head(s)>> \o ReplaceFirst(Tail(s), old, new)

cleanPath(p) ==
    IF Contains(p, <<"Z", "/", "D", "/", "z", "/">>)
    THEN ReplaceFirst(p, <<"Z", "/", "D", "/", "z", "/">>, <<"Z", "/">>)
    ELSE p

\* Files.Get(fileID) up the parents: the names from the root down.
RECURSIVE getFullPath(_, _)
getFullPath(d, id) ==
    IF id = 0 THEN RootName
    ELSE Join(getFullPath(d, d[id].parent), d[id].name)

\* OrderBy("modifiedTime desc")
RECURSIVE ByTimeDesc(_)
ByTimeDesc(items) ==
    IF items = {} THEN <<>>
    ELSE ByTimeDesc({x \in items : \E y \in items : y.time < x.time})
         \o <<CHOOSE x \in items : \A y \in items : x.time <= y.time>>

\* Files.List with the query "'folderID' in parents".
FilesInFolder(d, folderID) ==
    ByTimeDesc({d[k] : k \in {j \in DOMAIN d : d[j].parent = folderID}})

\* Files.List with the full-text query for transcripts, each file renamed
\* to its cleaned full path.
BroaderSearch(d) ==
    ByTimeDesc({[d[k] EXCEPT !.name = cleanPath(getFullPath(d, k))] :
                   k \in {j \in DOMAIN d : d[j].transcript}})

\* r.Files as the processing loop sees it.
Listed(inFolder, d, currentDepth) ==
    IF inFolder = <<>> /\ currentDepth = 1 THEN BroaderSearch(d) ELSE inFolder

FileInfo(f, currentPath) ==
    [ID |-> f.id, Name |-> f.name, Path |-> currentPath, ModifiedTime |-> f.time]

RECURSIVE listFilesRecursive(_, _, _, _, _, _)
RECURSIVE ProcessItems(_, _, _, _, _, _, _)

\* The loop "Now process them" from the k-th item of r.Files on; q holds
\* the compiled pattern, maxDepth and maxResults.
ProcessItems(d, q, items, k, parentPath, currentDepth, collected) ==
    IF k > Len(items) THEN collected
    ELSE IF q.maxResults > 0 /\ Len(collected) >= q.maxResults THEN collected
    ELSE IF items[k].trashed
    THEN ProcessItems(d, q, items, k + 1, parentPath, currentDepth, collected)
    ELSE IF items[k].folder
    THEN ProcessItems(d, q, items, k + 1, parentPath, currentDepth,
             listFilesRecursive(d, q, items[k].id,
                 cleanPath(Join(parentPath, items[k].name)), currentDepth + 1, collected))
    ELSE ProcessItems(d, q, items, k + 1, parentPath, currentDepth,
             IF FindFrom(q.regex, items[k].name, 1).found
             THEN Append(collected,
                      FileInfo(items[k], cleanPath(Join(parentPath, items[k].name))))
             ELSE collected)

listFilesRecursive(d, q, folderID, parentPath, currentDepth, collected) ==
    IF q.maxDepth # -1 /\ currentDepth > q.maxDepth THEN collected
    ELSE IF q.maxResults > 0 /\ Len(collected) >= q.maxResults THEN collected
    ELSE ProcessItems(d, q, Listed(FilesInFolder(d, folderID), d, currentDepth), 1,
                      parentPath, currentDepth, collected)

\* sort.Slice(files, ModifiedTime descending).  For slices of at most twelve
\* elements sort.Slice is an insertion sort, which keeps files of equal
\* time in the order they were collected.
InsertByTime(sorted, f) ==
    LET n == Cardinality({k \in DOMAIN sorted :
                             sorted[k].ModifiedTime >= f.ModifiedTime})
    IN  SubSeq(sorted, 1, n) \o <<f>> \o SubSeq(sorted, n + 1, Len(sorted))

RECURSIVE SortNewestFirst(_)
SortNewestFirst(fs) ==
    IF fs = <<>> THEN <<>>
    ELSE InsertByTime(SortNewestFirst(SubSeq(fs, 1, Len(fs) - 1)), fs[Len(fs)])

\* files[:maxResults]
Limit(collected, maxResults) ==
    IF maxResults > 0 /\ Len(collected) > maxResults THEN SubSeq(collected, 1, maxResults)
    ELSE collected

\* What ListFiles returns when the Drive API answers.
ListFilesRet(d, folderID, pat, maxDepth, maxResults) ==
    IF Compile(pat).err THEN [files |-> <<>>, err |-> "InvalidPattern"]
    ELSE [files |->
              Limit(SortNewestFirst(
                        listFilesRecursive(d,
                            [regex |-> Compile(pat), maxDepth |-> maxDepth,
                             maxResults |-> maxResults],
                            folderID, <<>>, 0, <<>>)),
                    maxResults),
          err |-> NoError]

(***************************************************************************)
(* The drives of the model.  Item 1 is a file of the root, item 2 a       *)
(* folder of the root that holds the files 3 and 5, item 4 an empty       *)
(* folder of the root; file 5 is the one the full-text search for         *)
(* transcripts finds.                                                      *)
(***************************************************************************)
Item(id, parent, name, folder, time, trashed, transcript) ==
    [id |-> id, parent |-> parent, name |-> name, folder |-> folder,
     time |-> time, trashed |-> trashed, transcript |-> transcript]

DriveOf(time, trashed, folderName) ==
    << Item(1, 0, <<"x">>, FALSE, time[1], 1 \in trashed, FALSE),
       Item(2, 0, folderName, TRUE, time[2], FALSE, FALSE),
       Item(3, 2, <<"x">>, FALSE, time[3], 3 \in trashed, FALSE),
       Item(4, 0, <<"e">>, TRUE, time[4], FALSE, FALSE),
       Item(5, 2, <<"t", "x">>, FALSE, time[5], 5 \in trashed, TRUE) >>

Times == {f \in [1..5 -> 1..5] : \A j, k \in 1..5 : f[j] = f[k] => j = k}

Drives ==
    {DriveOf(time, trashed, <<"d">>) :
        time \in Times, trashed \in {{}, {1}, {3}, {5}}}

\* The values of -max in the model.
MaxResults == 2

ListFlags ==
    {[NoFlags EXCEPT !.pattern = pat, !.folderID = id, !.maxDepth = depth,
                     !.maxResults = n, !.dryRun = TRUE] :
        pat \in {<<"x">>, <<"[">>}, id \in {0, 2}, depth \in {-1, 0, 1},
        n \in 0..MaxResults}

(***************************************************************************)
(* The program main, from the statement after flag.Parse.                 *)
(***************************************************************************)
OutputDir == <<"o">>

\* The validation of the path transformation flags.
Unpaired_PatternOnly(pathPattern, pathFormat) ==
    pathPattern = <<>> /\ pathFormat # <<>>

Unpaired(pathPattern, pathFormat) ==
    (pathPattern = <<>>) # (pathFormat = <<>>)

FlagError(f) ==
    IF f.pattern = <<>> THEN "PatternRequired"
    ELSE IF Unpaired(f.pathPattern, f.pathFormat) THEN "PathFlagsUnpaired"
    ELSE NoError

Exit(reason) ==
    /\ pc' = "exit"
    /\ why' = reason

ValidateFlags ==
    /\ pc = "validate"
    /\ IF FlagError(flags) # NoError
       THEN Exit(FlagError(flags))
       ELSE pc' = "transformer" /\ why' = why
    /\ UNCHANGED <<flags, drive, files, listed, cursor, results, shown, saved, run>>
    /\ UNCHANGED <<callVars, againVars, concVars>>

\* Where main goes after transform.NewPathTransformer returned err.
AfterTransformer_Ignored(e) == "service"

AfterTransformer(e) == IF e # NoError THEN "exit" ELSE "service"

BuildTransformer ==
    /\ pc = "transformer"
    /\ IF flags.pathPattern # <<>>
       THEN LET r == NewPathTransformerRet(flags.pathPattern, flags.pathFormat)
            IN  /\ t' = r.t
                /\ newErr' = r.err
                /\ pattern' = flags.pathPattern
                /\ format' = flags.pathFormat
                /\ pc' = AfterTransformer(r.err)
                /\ why' = IF AfterTransformer(r.err) = "exit" THEN "Transformer" ELSE why
       ELSE /\ pc' = "service"
            /\ UNCHANGED <<t, newErr, pattern, format, why>>
    /\ UNCHANGED <<flags, drive, files, listed, cursor, results, shown, saved, run>>
    /\ UNCHANGED <<phase, path, order, ret, err, msg>>
    /\ UNCHANGED <<againVars, concVars>>

NewDriveService(ok) ==
    /\ pc = "service"
    /\ IF ok THEN pc' = "list" /\ why' = why ELSE Exit("Service")
    /\ UNCHANGED <<flags, drive, files, listed, cursor, results, shown, saved, run>>
    /\ UNCHANGED <<callVars, againVars, concVars>>

\* The loop main enters with the files ListFiles returned.
AfterListing ==
    IF flags.dryRun THEN "preview"
    ELSE IF t # Nil THEN "transform"
    ELSE "download"

ListFiles(ok) ==
    /\ pc = "list"
    /\ LET r == ListFilesRet(drive, flags.folderID, flags.pattern,
                             flags.maxDepth, flags.maxResults)
       IN  IF ok /\ r.err = NoError
           THEN /\ files' = r.files
                /\ listed' = r.files
                /\ pc' = AfterListing
                /\ why' = why
           ELSE /\ Exit("List")
                /\ UNCHANGED <<files, listed>>
    /\ cursor' = 1
    /\ UNCHANGED <<flags, drive, results, shown, saved, run>>
    /\ UNCHANGED <<callVars, againVars, concVars>>

\* The orders in which a range loop of Transform may visit the captures.
Orders == RangeOrders(IF t = Nil THEN {} ELSE CaptureNames(t[1].pattern))

\* The path main goes on with after Transform returned r for a file.
TransformedPath_Always(r, original) == r.ret

TransformedPath(r, original) ==
    IF r.err # NoError THEN original ELSE r.ret

\* "Will be saved as" of the download preview.
WillBeSavedAs(file, o) ==
    IF t # Nil
    THEN Join(OutputDir, TransformedPath(TransformRet(t[1], file.Path, o), file.Path))
    ELSE Join(OutputDir, file.Path)

PreviewFile(o) ==
    /\ pc = "preview"
    /\ cursor <= Len(files)
    /\ shown' = Append(shown, [ID |-> files[cursor].ID,
                               at |-> WillBeSavedAs(files[cursor], o)])
    /\ cursor' = cursor + 1
    /\ UNCHANGED <<pc, flags, drive, files, listed, results, saved, why, run>>
    /\ UNCHANGED <<callVars, againVars, concVars>>

PreviewEnd ==
    /\ pc = "preview"
    /\ cursor > Len(files)
    /\ pc' = "done"
    /\ UNCHANGED <<flags, drive, files, listed, cursor, results, shown, saved, why, run>>
    /\ UNCHANGED <<callVars, againVars, concVars>>

TransformFile(o) ==
    /\ pc = "transform"
    /\ cursor <= Len(files)
    /\ LET r == TransformRet(t[1], files[cursor].Path, o)
       IN  /\ results' = Append(results, r)
           /\ files' = [files EXCEPT
                           ![cursor].Path = TransformedPath(r, files[cursor].Path)]
    /\ cursor' = cursor + 1
    /\ UNCHANGED <<pc, flags, drive, listed, shown, saved, why, run>>
    /\ UNCHANGED <<callVars, againVars, concVars>>

TransformEnd ==
    /\ pc = "transform"
    /\ cursor > Len(files)
    /\ pc' = "download"
    /\ cursor' = 1
    /\ UNCHANGED <<flags, drive, files, listed, results, shown, saved, why, run>>
    /\ UNCHANGED <<callVars, againVars, concVars>>

\* One turn of the loop of DownloadFiles: DownloadFile writes the file, or
\* fails and DownloadFiles returns its error.
DownloadFile(ok) ==
    /\ pc = "download"
    /\ cursor <= Len(files)
    /\ IF ok
       THEN /\ saved' = Append(saved, [ID |-> files[cursor].ID,
                                       at |-> Join(OutputDir, files[cursor].Path)])
            /\ cursor' = cursor + 1
            /\ UNCHANGED <<pc, why>>
       ELSE /\ Exit("Download")
            /\ UNCHANGED <<saved, cursor>>
    /\ UNCHANGED <<flags, drive, files, listed, results, shown, run>>
    /\ UNCHANGED <<callVars, againVars, concVars>>

DownloadEnd ==
    /\ pc = "download"
    /\ cursor > Len(files)
    /\ pc' = "done"
    /\ UNCHANGED <<flags, drive, files, listed, cursor, results, shown, saved, why, run>>
    /\ UNCHANGED <<callVars, againVars, concVars>>

\* After a dry run the program is started again with the same flags but
\* without -dry-run, on the same drive.
RunWithoutDryRun ==
    /\ pc = "done"
    /\ flags.dryRun
    /\ run = 1
    /\ run' = 2
    /\ flags' = [flags EXCEPT !.dryRun = FALSE]
    /\ pc' = "validate"
    /\ files' = <<>>
    /\ listed' = <<>>
    /\ cursor' = 1
    /\ t' = Nil
    /\ newErr' = NoError
    /\ pattern' = <<>>
    /\ format' = <<>>
    /\ UNCHANGED <<drive, results, shown, saved, why>>
    /\ UNCHANGED <<phase, path, order, ret, err, msg>>
    /\ UNCHANGED <<againVars, concVars>>

\* The flags and drives of the runs of main.
MainFormats == Pieced({Placeholder(<<"a">>), Placeholder(<<"u">>)}, MaxFormatPieces)

MainFlags ==
    {[NoFlags EXCEPT !.pattern = pat, !.maxResults = n, !.dryRun = dry,
                     !.pathPattern = pp, !.pathFormat = pf] :
        pat \in {<<>>, <<"x">>}, n \in {0, 1}, dry \in BOOLEAN,
        pp \in {PatEmpty, PatBadClass, PatNoGroup, PatOne, PatTwo},
        pf \in MainFormats}

MainDrives ==
    {DriveOf([k \in 1..5 |-> k], {}, folderName) :
        folderName \in {<<"d">>, Placeholder(<<"b">>)}}

InitMain ==
    /\ phase = "start"
    /\ pattern = <<>>
    /\ format = <<>>
    /\ t = Nil
    /\ newErr = NoError
    /\ path = <<>>
    /\ order = <<>>
    /\ ret = <<>>
    /\ err = NoError
    /\ msg = <<>>
    /\ order2 = <<>>
    /\ ret2 = <<>>
    /\ err2 = NoError
    /\ pc = "validate"
    /\ flags \in MainFlags
    /\ drive \in MainDrives
    /\ files = <<>>
    /\ listed = <<>>
    /\ cursor = 1
    /\ results = <<>>
    /\ shown = <<>>
    /\ saved = <<>>
    /\ why = NoError
    /\ run = 1
    /\ ConcIdle

NextMain ==
    \/ ValidateFlags
    \/ BuildTransformer
    \/ \E ok \in BOOLEAN : NewDriveService(ok)
    \/ \E ok \in BOOLEAN : ListFiles(ok)
    \/ \E o \in Orders : PreviewFile(o)
    \/ PreviewEnd
    \/ \E o \in Orders : TransformFile(o)
    \/ TransformEnd
    \/ \E ok \in BOOLEAN : DownloadFile(ok)
    \/ DownloadEnd
    \/ RunWithoutDryRun

SpecMain == InitMain /\ [][NextMain]_vars

(***************************************************************************)
(* ListFiles alone, on every drive of the model: main stands at its call  *)
(* of ListFiles.                                                           *)
(***************************************************************************)
InitList ==
    /\ phase = "start"
    /\ pattern = <<>>
    /\ format = <<>>
    /\ t = Nil
    /\ newErr = NoError
    /\ path = <<>>
    /\ order = <<>>
    /\ ret = <<>>
    /\ err = NoError
    /\ msg = <<>>
    /\ order2 = <<>>
    /\ ret2 = <<>>
    /\ err2 = NoError
    /\ pc = "list"
    /\ flags \in ListFlags
    /\ drive \in Drives
    /\ files = <<>>
    /\ listed = <<>>
    /\ cursor = 1
    /\ results = <<>>
    /\ shown = <<>>
    /\ saved = <<>>
    /\ why = NoError
    /\ run = 1
    /\ ConcIdle

NextList == \E ok \in BOOLEAN : ListFiles(ok)

SpecList == InitList /\ [][NextList]_vars

(***************************************************************************)
(* Vocabulary of the properties.                                           *)
(***************************************************************************)
Names == {<<"a">>, <<"b">>, <<"u">>}

\* The names the pattern text declares with (?P<name>, whether or not the
\* text compiles.
TextDeclares(pat) == {g \in Names : Contains(pat, NamedOpen(g))}

\* The named groups of a compiled pattern.
DeclaredNames(re) == {g \in Names : \E i \in 1..Len(re.names) : re.names[i] = g}

\* s[i..j-1] belongs to the language of node (no preference order, no
\* leftmost rule: the plain meaning of the expression).
RECURSIVE In(_, _, _, _)
In(node, s, i, j) ==
    CASE node.op = "empty" -> i = j
      [] node.op = "lit" -> j = i + 1 /\ i <= Len(s) /\ s[i] = node.c
      [] node.op = "any" -> j = i + 1 /\ i <= Len(s)
      [] node.op = "cat" -> \E k \in i..j : In(node.l, s, i, k) /\ In(node.r, s, k, j)
      [] node.op = "alt" -> In(node.l, s, i, j) \/ In(node.r, s, i, j)
      [] node.op = "star" ->
            i = j \/ \E k \in (i + 1)..j : In(node.l, s, i, k) /\ In(node, s, k, j)
      [] node.op = "group" -> In(node.l, s, i, j)

\* Some substring of s is matched by the pattern.
MatchesAnywhere(re, s) ==
    \E i \in 1..(Len(s) + 1) : \E j \in i..(Len(s) + 1) : In(re.prog, s, i, j)

\* The captures map of the latest call and the text its substitution loop
\* leaves, visiting the captures in the order the call did.
CallCaptures == Captures(t[1].pattern, FindStringSubmatch(t[1].pattern, path))
LoopText == ReplaceLoop(t[1].format, CallCaptures, order, 1)

\* The named groups that took no part in the match of the latest call.
NonParticipating ==
    {g \in CaptureNames(t[1].pattern) :
        \E k \in 1..(Len(t[1].pattern.names) - 1) :
            /\ t[1].pattern.names[k + 1] = g
            /\ FindFrom(t[1].pattern, path, 1).caps[k] = NoSpan}

\* The format after one pass from left to right that replaces each ${name}
\* of a captured name by its value and never looks at inserted text.
RECURSIVE SinglePass(_, _)
SinglePass(fmt, captures) ==
    IF fmt = <<>> THEN <<>>
    ELSE IF \E g \in DOMAIN captures : HasPrefix(fmt, Placeholder(g))
    THEN LET g == CHOOSE n \in DOMAIN captures : HasPrefix(fmt, Placeholder(n))
         IN  captures[g]
             \o SinglePass(SubSeq(fmt, Len(Placeholder(g)) + 1, Len(fmt)), captures)
    ELSE <<Head(fmt)>> \o SinglePass(Tail(fmt), captures)

\* The names the format refers to that the pattern does not declare.
Undeclared(re, fmt) ==
    {u \in Names \ DeclaredNames(re) : Contains(fmt, Placeholder(u))}

Called == phase = "transformed"
Matched == Called /\ err # "NoMatch"

(***************************************************************************)
(* C1: whenever the pattern or the format is the empty string,            *)
(* NewPathTransformer returns nil and the InvalidArguments error, also    *)
(* when the other argument is empty too or is a pattern that does not     *)
(* compile.                                                                *)
(***************************************************************************)
C1_EmptyArgumentRejected ==
    (phase # "start" /\ (pattern = <<>> \/ format = <<>>))
        => (newErr = "InvalidArguments" /\ t = Nil)

C1_Witness ==
    /\ phase = "constructed"
    /\ pattern = PatBadClass
    /\ format = <<>>
    /\ newErr = "InvalidArguments"

C3_AsStated ==
    (/\ phase # "start"
     /\ pattern # <<>>
     /\ \E g \in TextDeclares(pattern) : Contains(format, Placeholder(g)))
        => (newErr = NoError /\ t # Nil)

(***************************************************************************)
(* C3, amended: for every non-empty pattern that compiles and declares a  *)
(* named group g and every format containing ${g}, NewPathTransformer     *)
(* succeeds and returns a transformer holding the compiled pattern and    *)
(* the format text verbatim, whatever else the format contains.           *)
(***************************************************************************)
C3_DeclaredAndUsedSucceeds ==
    (/\ phase # "start"
     /\ pattern # <<>>
     /\ ~Compile(pattern).err
     /\ \E g \in DeclaredNames(Compile(pattern)) : Contains(format, Placeholder(g)))
        => (/\ newErr = NoError
            /\ t = <<[pattern |-> Compile(pattern), format |-> format]>>)

C3_Witness ==
    /\ phase = "constructed"
    /\ pattern = PatTwo
    /\ format = Placeholder(<<"a">>) \o Placeholder(<<"u">>)
    /\ t # Nil

(***************************************************************************)
(* C4: Transform(t, x) has the same outcome, the same string or the same  *)
(* error, for every order in which the named groups are visited.          *)
(* range visits the captures map in an unspecified order, and with the    *)
(* pattern PatTwo, format ${a} and path ${b}/ the order a, b returns "/"  *)
(* while the order b, a returns UnresolvedPlaceholder.                    *)
(***************************************************************************)
C4_AsStated ==
    Called =>
        \A o \in RangeOrders(CaptureNames(t[1].pattern)) :
            /\ TransformRet(t[1], path, o).err = err
            /\ TransformRet(t[1], path, o).ret = ret

(***************************************************************************)
(* C5: a captured value is inserted verbatim and never scanned again:     *)
(* when the format uses ${a} and the text captured for a contains ${b}    *)
(* for another named group b, the call ends in UnresolvedPlaceholder.     *)
(* The loop replaces in the text the earlier replacements produced, so a  *)
(* visit of a before b replaces the inserted ${b} too.                    *)
(***************************************************************************)
C5_AsStated ==
    Matched =>
        \A a, b \in CaptureNames(t[1].pattern) :
            (/\ a # b
             /\ Contains(format, Placeholder(a))
             /\ Contains(CallCaptures[a], Placeholder(b)))
                => err = "UnresolvedPlaceholder"

(***************************************************************************)
(* C6, as stated: on a matching input Transform fails with                *)
(* UnresolvedPlaceholder exactly when the substituted text has a "${"     *)
(* followed later by a "}", and returns the substituted text otherwise.   *)
(* The text }${ is rejected although its "}" precedes the "${".           *)
(***************************************************************************)
C6_AsStated ==
    Matched =>
        /\ err = "UnresolvedPlaceholder" <=> PlaceholderShaped(LoopText)
        /\ err = NoError => ret = LoopText

(***************************************************************************)
(* C6, amended: on a matching input Transform fails with                  *)
(* UnresolvedPlaceholder exactly when the substituted text contains "${"  *)
(* and contains "}", wherever the two stand; otherwise it returns the     *)
(* substituted text.                                                      *)
(***************************************************************************)
C6_UnresolvedIffBothMarks ==
    Matched =>
        /\ err = "UnresolvedPlaceholder" <=>
               (Contains(LoopText, <<"$", "{">>) /\ Contains(LoopText, <<"}">>))
        /\ err = "UnresolvedPlaceholder" => (ret = <<>> /\ msg = LoopText)
        /\ err = NoError => ret = LoopText

C6_Witness ==
    /\ Matched
    /\ err = "UnresolvedPlaceholder"
    /\ ~PlaceholderShaped(msg)

(***************************************************************************)
(* C7: Transform fails with NoMatch, carrying the input, exactly when no  *)
(* substring of the input is matched by the pattern (the search is not    *)
(* anchored); it then returns the empty string and no substituted text.   *)
(***************************************************************************)
C7_NoMatch ==
    Called =>
        /\ err = "NoMatch" <=> ~MatchesAnywhere(t[1].pattern, path)
        /\ err = "NoMatch" => (ret = <<>> /\ msg = path)

C7_Witness ==
    /\ Called
    /\ err = "NoMatch"
    /\ path # <<>>
    /\ Contains(path, <<"x">>)

(***************************************************************************)
(* C8: a call returns either an error with the empty string, or no error  *)
(* with a string in which no ${name} of the format is left.               *)
(***************************************************************************)
C8_AllOrNothing ==
    Called =>
        /\ err # NoError => ret = <<>>
        /\ err = NoError =>
               \A g \in Names :
                   Contains(format, Placeholder(g)) => ~Contains(ret, Placeholder(g))

C8_Witness ==
    /\ Called
    /\ err = "UnresolvedPlaceholder"
    /\ msg # <<>>
    /\ ret = <<>>

(***************************************************************************)
(* C9: a format that names a group the pattern does not declare, next to  *)
(* one it declares, is accepted by NewPathTransformer, and Transform then *)
(* fails with UnresolvedPlaceholder on every matching input.              *)
(***************************************************************************)
C9_UndeclaredName ==
    /\ (/\ phase # "start"
        /\ pattern # <<>>
        /\ ~Compile(pattern).err
        /\ \E g \in DeclaredNames(Compile(pattern)) : Contains(format, Placeholder(g))
        /\ Undeclared(Compile(pattern), format) # {})
           => (newErr = NoError /\ t # Nil)
    /\ (Matched /\ Undeclared(t[1].pattern, format) # {})
           => (err = "UnresolvedPlaceholder" /\ ret = <<>>)

C9_Witness ==
    /\ Matched
    /\ pattern = PatOne
    /\ format = Placeholder(<<"a">>) \o Placeholder(<<"u">>)
    /\ err = "UnresolvedPlaceholder"

(***************************************************************************)
(* C10: a named group that took no part in the match has the empty string *)
(* as its value: when the format with every ${name} replaced in one pass, *)
(* the empty string standing for such a group, leaves nothing for the     *)
(* unreplaced-placeholder check to find, Transform succeeds and returns   *)
(* that text; so it fails only when that text has something unresolved.   *)
(***************************************************************************)
C10_NonParticipatingIsEmpty ==
    (Matched /\ NonParticipating # {}) =>
        /\ \A g \in NonParticipating : CallCaptures[g] = <<>>
        /\ ~Unreplaced(SinglePass(format, CallCaptures))
               => (err = NoError /\ ret = SinglePass(format, CallCaptures))

C10_Witness ==
    /\ Matched
    /\ err = NoError
    /\ \E g \in NonParticipating : Contains(format, Placeholder(g))

(***************************************************************************)
(* C11: when Transform(t, x) = y and y matches the pattern of t with the  *)
(* same captured value for every named group, Transform(t, y) = y.        *)
(* With the pattern PatAlt, format $${a}{b} and x = "/" (a takes no part, *)
(* b = "/"), visiting a then b returns y = "/", and the call on y fails   *)
(* with UnresolvedPlaceholder when it visits b before a.                  *)
(***************************************************************************)
C11_AsStated ==
    (/\ phase = "again"
     /\ FindStringSubmatch(t[1].pattern, ret) # <<>>
     /\ Captures(t[1].pattern, FindStringSubmatch(t[1].pattern, ret)) = CallCaptures)
        => (err2 = NoError /\ ret2 = ret)

\* The same statement for a second call that visits the captures in the
\* order of the first.
C11_SameOrder ==
    (/\ phase = "again"
     /\ order2 = order
     /\ FindStringSubmatch(t[1].pattern, ret) # <<>>
     /\ Captures(t[1].pattern, FindStringSubmatch(t[1].pattern, ret)) = CallCaptures)
        => (err2 = NoError /\ ret2 = ret)

(***************************************************************************)
(* Vocabulary of the properties of main.                                   *)
(***************************************************************************)
\* The non-dry run holds a transformer and has entered its transform loop.
Transforming ==
    /\ ~flags.dryRun
    /\ t # Nil
    /\ pc \in {"transform", "download", "done"} \/ (pc = "exit" /\ why = "Download")

\* Nothing was listed, previewed, transformed or downloaded.
NothingDone ==
    /\ listed = <<>>
    /\ files = <<>>
    /\ shown = <<>>
    /\ results = <<>>
    /\ saved = <<>>

\* transform.NewPathTransformer was not called.
NeverBuilt == t = Nil /\ pattern = <<>> /\ format = <<>> /\ newErr = NoError

\* The number of folders between the item and the start folder, -1 when
\* the item is not below the start folder.
RECURSIVE DepthBelow(_, _, _)
DepthBelow(d, id, start) ==
    IF d[id].parent = start THEN 0
    ELSE IF d[id].parent = 0 THEN -1
    ELSE IF DepthBelow(d, d[id].parent, start) = -1 THEN -1
    ELSE DepthBelow(d, d[id].parent, start) + 1

\* The non-trashed files below the start folder, within the maximal
\* depth, whose name matches the pattern.
InScope(d, f) ==
    {id \in DOMAIN d :
        /\ ~d[id].folder
        /\ ~d[id].trashed
        /\ FindFrom(Compile(f.pattern), d[id].name, 1).found
        /\ DepthBelow(d, id, f.folderID) # -1
        /\ f.maxDepth # -1 => DepthBelow(d, id, f.folderID) <= f.maxDepth}

(***************************************************************************)
(* C12: in a run without -dry-run that has a transformer, a file whose    *)
(* Transform fails keeps the path ListFiles gave it, every other file     *)
(* gets the path Transform returned, the loop goes through every listed   *)
(* file, and the download step receives every listed file; the run exits  *)
(* with an error only when a download fails.                              *)
(***************************************************************************)
C12_TransformErrorIsScoped ==
    Transforming =>
        /\ Len(files) = Len(listed)
        /\ \A k \in DOMAIN files : files[k].ID = listed[k].ID
        /\ Len(results) <= Len(listed)
        /\ \A k \in DOMAIN results :
               /\ \E o \in Orders : results[k] = TransformRet(t[1], listed[k].Path, o)
               /\ files[k].Path = IF results[k].err = NoError
                                  THEN results[k].ret
                                  ELSE listed[k].Path
        /\ \A k \in DOMAIN files : k > Len(results) => files[k] = listed[k]
        /\ pc # "transform" => Len(results) = Len(listed)
        /\ \A k \in DOMAIN saved :
               saved[k] = [ID |-> listed[k].ID, at |-> Join(OutputDir, files[k].Path)]
        /\ pc = "done" => Len(saved) = Len(listed)

C12_Witness ==
    /\ Transforming
    /\ pc = "done"
    /\ Len(saved) = Len(listed)
    /\ \E j, k \in DOMAIN results :
           /\ results[j].err # NoError
           /\ results[k].err = NoError
           /\ j < k

(***************************************************************************)
(* C13: with -max N, N > 0, ListFiles returns the N most recently         *)
(* modified of the non-trashed matching files below the start folder:     *)
(* the result is sorted newest first and no file in scope that is newer   *)
(* than a returned file is left out.  listFilesRecursive stops collecting *)
(* at N files, in the order of its walk, before the sort.                 *)
(***************************************************************************)
C13_AsStated ==
    (pc \in {"preview", "transform", "download"} /\ flags.maxResults > 0) =>
        /\ \A j, k \in DOMAIN listed :
               j < k => listed[j].ModifiedTime >= listed[k].ModifiedTime
        /\ \A id \in InScope(drive, flags) :
               (\A k \in DOMAIN listed : listed[k].ID # id)
                   => \A k \in DOMAIN listed : listed[k].ModifiedTime >= drive[id].time

(***************************************************************************)
(* C14: with exactly one of -path-pattern and -path-format the program    *)
(* exits with an error and NewPathTransformer is never called, no file is *)
(* listed and none is downloaded; with neither of them there is no        *)
(* transformer and every file is saved under the path ListFiles gave it.  *)
(***************************************************************************)
C14_PairOrNothing ==
    /\ ((flags.pathPattern = <<>>) # (flags.pathFormat = <<>>) /\ pc # "validate")
           => /\ pc = "exit"
              /\ why \in {"PatternRequired", "PathFlagsUnpaired"}
              /\ NeverBuilt
              /\ NothingDone
    /\ (flags.pathPattern = <<>> /\ flags.pathFormat = <<>> /\ pc # "idle")
           => /\ NeverBuilt
              /\ files = listed
              /\ \A k \in DOMAIN saved :
                     saved[k] = [ID |-> listed[k].ID,
                                 at |-> Join(OutputDir, listed[k].Path)]

C14_Witness ==
    /\ flags.pathPattern # <<>>
    /\ flags.pathFormat = <<>>
    /\ pc = "exit"
    /\ why = "PathFlagsUnpaired"

(***************************************************************************)
(* C15: when NewPathTransformer returns an error the program has exited   *)
(* with an error, and no file was or will be listed, previewed,           *)
(* transformed or downloaded: the exit is the last step.                  *)
(***************************************************************************)
C15_CompileErrorIsFatal ==
    (pc # "idle" /\ newErr # NoError) =>
        /\ pc = "exit"
        /\ why = "Transformer"
        /\ t = Nil
        /\ NothingDone

C15_Witness ==
    /\ pc = "exit"
    /\ why = "Transformer"
    /\ newErr = "TemplateUnused"

(***************************************************************************)
(* C16: the transformer stays as NewPathTransformer returned it, and a    *)
(* call of Transform that returned among concurrent calls returned what   *)
(* it returns alone for its path and the order of its range loop.         *)
(***************************************************************************)
C16_ConcurrentCallsAsAlone ==
    /\ phase = "constructed" => t = NewPathTransformerRet(pattern, format).t
    /\ \A self \in Goroutines :
           calls[self].pc = "returned" =>
               /\ calls[self].ret =
                      TransformRet(t[1], calls[self].path, calls[self].visited).ret
               /\ calls[self].err =
                      TransformRet(t[1], calls[self].path, calls[self].visited).err

C16_Witness ==
    /\ \A self \in Goroutines : calls[self].pc = "returned" /\ calls[self].concurrent
    /\ calls[1].path # calls[2].path
    /\ calls[1].err = NoError
    /\ calls[2].err = "UnresolvedPlaceholder"
    /\ calls[1].ret # <<>>

(***************************************************************************)
(* C17: with -dry-run no file is downloaded and no path is rewritten, and *)
(* the run without -dry-run that follows with the same flags saves every  *)
(* file at the location the preview showed for it.  With the pattern      *)
(* PatTwo and the format ${a}, the file x of a folder named ${b} is shown *)
(* as the output directory when the preview visits a before b, and saved  *)
(* under its original path when the run visits b before a.                *)
(***************************************************************************)
C17_AsStated ==
    /\ flags.dryRun => (saved = <<>> /\ files = listed)
    /\ run = 2 => \A k \in DOMAIN saved : k \in DOMAIN shown /\ saved[k] = shown[k]
====
